---- MODULE Spec2Model ----
(***************************************************************************)
(* Model of ptsim, a page-table simulator: one array of simulated RAM,     *)
(* whose page 0 holds the free/used map (bytes 0..63) and the page table   *)
(* pointer table (bytes 64..), and the commands np, kp, sb, lb, pfm, ppt   *)
(* that main() dispatches one at a time.                                   *)
(***************************************************************************)
EXTENDS Integers, Sequences, FiniteSets, TLC

\* ------------------------------------------------------------------------
\* Program constants (the #defines)
\* ------------------------------------------------------------------------
MEM_SIZE == 16384
PAGE_SIZE == 256
PAGE_COUNT == 64
PAGE_SHIFT == 8
PTP_OFFSET == 64

\* ------------------------------------------------------------------------
\* Bounds of the exploration (the command-line arguments tried)
\* ------------------------------------------------------------------------
MaxProc == 2        \* proc_num ranges over 1..MaxProc
MaxVPage == 0       \* virtual pages 0..MaxVPage are addressed, at offset 0
MaxVal == 2         \* small byte values 0..MaxVal are stored
MaxCmds == 3        \* commands on one command line

\* A byte value that is no page index (>= PAGE_COUNT) and that, read as an
\* offset in page 0, falls on the page table pointer of process 1.
BigVal == PTP_OFFSET + 1

Procs == 1..MaxProc
\* page_count arguments: none, one, three, and all but two pages of the RAM
PageCounts == {0, 1, 3, PAGE_COUNT - 2}
Vals == (0..MaxVal) \cup {BigVal}

\* ------------------------------------------------------------------------
\* Bit operations of C on non-negative ints
\* ------------------------------------------------------------------------
ShiftLeft(a, n) == a * 2^n
ShiftRight(a, n) == a \div 2^n

RECURSIVE BitOr(_, _)
BitOr(a, b) ==
    IF a = 0 THEN b
    ELSE IF b = 0 THEN a
    ELSE (IF a % 2 = 1 \/ b % 2 = 1 THEN 1 ELSE 0)
         + 2 * BitOr(a \div 2, b \div 2)

RECURSIVE BitAnd(_, _)
BitAnd(a, b) ==
    IF a = 0 \/ b = 0 THEN 0
    ELSE (IF a % 2 = 1 /\ b % 2 = 1 THEN 1 ELSE 0)
         + 2 * BitAnd(a \div 2, b \div 2)

\* ------------------------------------------------------------------------
\* unsigned char mem[MEM_SIZE], kept as the function of its nonzero cells
\* (a cell outside the domain holds 0), so that equal arrays are equal values.
\* ------------------------------------------------------------------------
Read(m, addr) == IF addr \in DOMAIN m THEN m[addr] ELSE 0

Write(m, addr, byte) ==
    IF byte # 0 THEN (addr :> byte) @@ m
    ELSE IF addr \in DOMAIN m THEN [a \in DOMAIN m \ {addr} |-> m[a]] @@ << >>
    ELSE m

\* TRUE, once v is computed: a loop's rounds are computed one after another
Done(v) == v = v

InBounds(addr) == addr >= 0 /\ addr < MEM_SIZE

\* conversion of an int to unsigned char
ToByte(x) == x % 256

\* memset(mem, 0, MEM_SIZE)
ZeroMem == [a \in {} |-> 0]

\* int get_address(int page, int offset)
get_address(page, offset) == BitOr(ShiftLeft(page, PAGE_SHIFT), offset)

\* an initialization that leaves the zero page unmarked
initialize_mem_unmarked == ZeroMem

\* void initialize_mem(void)
initialize_mem ==
    LET zpfree_addr == get_address(0, 0)
    IN  Write(ZeroMem, zpfree_addr, 1)

\* unsigned char get_page_table(int proc_num)
get_page_table(m, proc_num) ==
    LET ptp_addr == get_address(0, PTP_OFFSET + proc_num)
    IN  Read(m, ptp_addr)

\* ------------------------------------------------------------------------
\* new_process
\* ------------------------------------------------------------------------
\* a scan that stops at the highest free page instead of the lowest
ScanFreeDescending(m) ==
    LET free == {i \in 0..(PAGE_COUNT - 1) : Read(m, get_address(0, i)) = 0}
    IN  IF free = {} THEN -1
        ELSE CHOOSE i \in free : \A k \in free : i >= k

\* a scan that yields page 0 when it finds no free page
ScanFreeOrZero(m) ==
    LET free == {i \in 0..(PAGE_COUNT - 1) : Read(m, get_address(0, i)) = 0}
    IN  IF free = {} THEN 0
        ELSE CHOOSE i \in free : \A k \in free : i <= k

\* for (i = 0; i < PAGE_COUNT; i++) if (mem[get_address(0, i)] == 0) ... break;
\* the index at which the ascending scan stops, or -1 when it runs to the end
ScanFree(m) ==
    LET free == {i \in 0..(PAGE_COUNT - 1) : Read(m, get_address(0, i)) = 0}
    IN  IF free = {} THEN -1
        ELSE CHOOSE i \in free : \A k \in free : i <= k

\* mem[addr] = 1;  // Mark page as allocated
MarkAllocated(m, i) == Write(m, get_address(0, i), 1)

\* a round j that goes on after a failed allocation, leaving data_pages[j]
\* at -1, instead of printing the OOM message and returning
AllocDataPageNoReturn(st, j) ==
    LET allocated == ScanFree(st.mem)
    IN  IF allocated = -1
        THEN st
        ELSE [mem |-> MarkAllocated(st.mem, allocated),
              data_pages |-> [st.data_pages EXCEPT ![j + 1] = allocated],
              oom |-> FALSE]

\* a round j that, on a failed allocation, gives back the data pages of the
\* earlier rounds before it returns
AllocDataPageRollback(st, j) ==
    IF st.oom THEN st
    ELSE LET allocated == ScanFree(st.mem)
             taken == {get_address(0, st.data_pages[k]) :
                          k \in {x \in DOMAIN st.data_pages : st.data_pages[x] # -1}}
         IN  IF allocated = -1
             THEN [mem |-> [a \in DOMAIN st.mem \ taken |-> st.mem[a]] @@ << >>,
                   data_pages |-> st.data_pages,
                   oom |-> TRUE]
             ELSE [mem |-> MarkAllocated(st.mem, allocated),
                   data_pages |-> [st.data_pages EXCEPT ![j + 1] = allocated],
                   oom |-> FALSE]

\* one round j of the loop that allocates the data pages; after the return
\* on a failed allocation (oom) no further round runs
AllocDataPage(st, j) ==
    IF st.oom THEN st
    ELSE LET allocated == ScanFree(st.mem)
         IN  IF allocated = -1
             THEN [st EXCEPT !.oom = TRUE]
             ELSE [mem |-> MarkAllocated(st.mem, allocated),
                   data_pages |-> [st.data_pages EXCEPT ![j + 1] = allocated],
                   oom |-> FALSE]

\* the rounds j = lo..hi of that loop, in order
RECURSIVE AllocDataPages(_, _, _)
AllocDataPages(st, lo, hi) ==
    IF lo > hi THEN st
    ELSE IF lo = hi THEN AllocDataPage(st, lo)
    ELSE LET mid == (lo + hi) \div 2
             half == AllocDataPages(st, lo, mid)
         IN  IF half.oom THEN half
             ELSE AllocDataPages(half, mid + 1, hi)

\* one round i of the loop that sets the page table entries
SetEntry(m, pt_addr, i, data_pages) ==
    IF data_pages[i + 1] # -1
    THEN Write(m, pt_addr + i, ToByte(data_pages[i + 1]))
    ELSE m

\* the rounds i = lo..hi of that loop, in order
RECURSIVE SetEntries(_, _, _, _, _)
SetEntries(m, pt_addr, lo, hi, data_pages) ==
    IF lo > hi THEN m
    ELSE IF lo = hi THEN SetEntry(m, pt_addr, lo, data_pages)
    ELSE LET mid == (lo + hi) \div 2
             half == SetEntries(m, pt_addr, lo, mid, data_pages)
         IN  IF Done(half)
             THEN SetEntries(half, pt_addr, mid + 1, hi, data_pages)
             ELSE half

\* Set the page table pointer, then the page table entries
CommitProcess(m, proc_num, pt_page, page_count, data_pages) ==
    LET ptp_addr == get_address(0, PTP_OFFSET + proc_num)
        m1 == Write(m, ptp_addr, ToByte(pt_page))
        pt_addr == get_address(pt_page, 0)
    IN  SetEntries(m1, pt_addr, 0, page_count - 1, data_pages)

\* void new_process(int proc_num, int page_count)
new_process(m, proc_num, page_count) ==
    LET pt_page == ScanFree(m)
    IN  IF pt_page = -1
        THEN [mem |-> m, out |-> "OOM: page table",
              pt_page |-> -1, data_pages |-> << >>]
        ELSE LET d == AllocDataPages([mem |-> MarkAllocated(m, pt_page),
                                      data_pages |-> [j \in 1..page_count |-> -1] @@ << >>,
                                      oom |-> FALSE],
                                     0, page_count - 1)
             IN  IF d.oom
                 THEN [mem |-> d.mem, out |-> "OOM: data page",
                       pt_page |-> pt_page, data_pages |-> d.data_pages]
                 ELSE [mem |-> CommitProcess(d.mem, proc_num, pt_page,
                                             page_count, d.data_pages),
                       out |-> "",
                       pt_page |-> pt_page, data_pages |-> d.data_pages]

\* ------------------------------------------------------------------------
\* kill_process
\* ------------------------------------------------------------------------
\* one round i of the loop that frees the data pages: the slot is read when
\* its round comes
FreeDataPage(m, pt_addr, i) ==
    LET data_page == Read(m, pt_addr + i)
    IN  IF data_page # 0
        THEN Write(m, get_address(0, data_page), 0)
        ELSE m

\* the rounds i = lo..hi of that loop, in order
RECURSIVE FreeDataPages(_, _, _, _)
FreeDataPages(m, pt_addr, lo, hi) ==
    IF lo > hi THEN m
    ELSE IF lo = hi THEN FreeDataPage(m, pt_addr, lo)
    ELSE LET mid == (lo + hi) \div 2
             half == FreeDataPages(m, pt_addr, lo, mid)
         IN  IF Done(half)
             THEN FreeDataPages(half, pt_addr, mid + 1, hi)
             ELSE half

\* void kill_process(int proc_num)
kill_process(m, proc_num) ==
    LET pt_page == get_page_table(m, proc_num)
        pt_addr == get_address(pt_page, 0)
        m1 == FreeDataPages(m, pt_addr, 0, PAGE_COUNT - 1)
        m2 == Write(m1, get_address(0, pt_page), 0)
        m3 == Write(m2, get_address(0, PTP_OFFSET + proc_num), 0)
    IN  [mem |-> m3, out |-> "", pt_page |-> pt_page]

\* ------------------------------------------------------------------------
\* store_byte, load_byte
\* ------------------------------------------------------------------------
\* a store that does not test phys_page against 0
store_byte_unchecked(m, proc_num, vaddr, val) ==
    LET pt_page == get_page_table(m, proc_num)
        virtual_page == ShiftRight(vaddr, PAGE_SHIFT)
        offset == BitAnd(vaddr, 255)
        pt_addr == get_address(pt_page, virtual_page)
        phys_page == Read(m, pt_addr)
        phys_addr == get_address(phys_page, offset)
    IN  IF InBounds(phys_addr)
        THEN [mem |-> Write(m, phys_addr, val), out |-> "Store",
              phys_addr |-> phys_addr, val |-> val, oob |-> FALSE]
        ELSE [mem |-> m, out |-> "Store",
              phys_addr |-> phys_addr, val |-> val, oob |-> TRUE]

\* void store_byte(int proc_num, int vaddr, unsigned char val)
\* oob: the write goes to mem[phys_addr] with phys_addr >= MEM_SIZE
store_byte(m, proc_num, vaddr, val) ==
    LET pt_page == get_page_table(m, proc_num)
        virtual_page == ShiftRight(vaddr, PAGE_SHIFT)
        offset == BitAnd(vaddr, 255)
        pt_addr == get_address(pt_page, virtual_page)
        phys_page == Read(m, pt_addr)
        phys_addr == get_address(phys_page, offset)
    IN  IF phys_page = 0
        THEN [mem |-> m, out |-> "Error: Invalid virtual address",
              phys_addr |-> -1, val |-> -1, oob |-> FALSE]
        ELSE IF InBounds(phys_addr)
        THEN [mem |-> Write(m, phys_addr, val), out |-> "Store",
              phys_addr |-> phys_addr, val |-> val, oob |-> FALSE]
        ELSE [mem |-> m, out |-> "Store",
              phys_addr |-> phys_addr, val |-> val, oob |-> TRUE]

\* void load_byte(int proc_num, int vaddr)
\* oob: the read is of mem[phys_addr] with phys_addr >= MEM_SIZE
load_byte(m, proc_num, vaddr) ==
    LET pt_page == get_page_table(m, proc_num)
        virtual_page == ShiftRight(vaddr, PAGE_SHIFT)
        offset == BitAnd(vaddr, 255)
        pt_addr == get_address(pt_page, virtual_page)
        phys_page == Read(m, pt_addr)
        phys_addr == get_address(phys_page, offset)
    IN  IF phys_page = 0
        THEN [out |-> "Error: Invalid virtual address",
              phys_addr |-> -1, val |-> -1, oob |-> FALSE]
        ELSE IF InBounds(phys_addr)
        THEN [out |-> "Load", phys_addr |-> phys_addr,
              val |-> Read(m, phys_addr), oob |-> FALSE]
        ELSE [out |-> "Load", phys_addr |-> phys_addr,
              val |-> -1, oob |-> TRUE]

\* ------------------------------------------------------------------------
\* The printers
\* ------------------------------------------------------------------------
\* void print_page_free_map(void): the 64 characters printed, '.' or '#'
print_page_free_map(m) ==
    [k \in 1..64 |-> IF Read(m, get_address(0, k - 1)) = 0 THEN "." ELSE "#"]

\* void print_page_table(int proc_num): the lines "i -> page" printed by the
\* rounds i = lo..hi of its loop, in order
RECURSIVE PrintEntries(_, _, _, _)
PrintEntries(m, page_table, lo, hi) ==
    IF lo > hi THEN << >>
    ELSE IF lo = hi
    THEN LET addr == get_address(page_table, lo)
             page == Read(m, addr)
         IN  IF page # 0 THEN << <<lo, page>> >> ELSE << >>
    ELSE LET mid == (lo + hi) \div 2
         IN  PrintEntries(m, page_table, lo, mid)
             \o PrintEntries(m, page_table, mid + 1, hi)

print_page_table(m, proc_num) ==
    LET page_table == get_page_table(m, proc_num)
    IN  PrintEntries(m, page_table, 0, PAGE_COUNT - 1)

\* ------------------------------------------------------------------------
\* State: the RAM, and what the last command was and did
\* ------------------------------------------------------------------------
VARIABLES
    mem,        \* the simulated RAM
    pc,         \* where main() is: "loop" (about to read a command) or
                \* "ran" (a command's function has just returned)
    pre,        \* at "ran": the RAM before the command
    last,       \* at "ran": the command, its arguments, locals and output
    crashed,    \* the process was killed by an access outside mem
    recreated,  \* some np was given a process that had a page table already
    ncmds       \* commands of the command line run so far

vars == <<mem, pc, pre, last, crashed, recreated, ncmds>>

\* virtual addresses tried
VAddrs == {get_address(vp, 0) : vp \in 0..MaxVPage}

NoCmd ==
    [op |-> "init", proc_num |-> -1, arg |-> -1, val |-> -1, out |-> "",
     pt_page |-> -1, data_pages |-> << >>, phys_addr |-> -1, rval |-> -1,
     lines |-> << >>, oob |-> FALSE]

\* main(): initialize_mem() before the first command
Init ==
    /\ mem = initialize_mem
    /\ pc = "loop"
    /\ pre = initialize_mem
    /\ last = NoCmd
    /\ crashed = FALSE
    /\ recreated = FALSE
    /\ ncmds = 0

CanRun == pc = "loop" /\ ~crashed /\ ncmds < MaxCmds

\* "np" proc_num page_count
NewProcess ==
    /\ CanRun
    /\ \E proc_num \in Procs, page_count \in PageCounts :
         \E r \in {new_process(mem, proc_num, page_count)} :
             /\ mem' = r.mem
             /\ last' = [NoCmd EXCEPT !.op = "np", !.proc_num = proc_num,
                            !.arg = page_count, !.out = r.out,
                            !.pt_page = r.pt_page, !.data_pages = r.data_pages]
             /\ recreated' = (recreated \/ get_page_table(mem, proc_num) # 0)
    /\ pre' = mem
    /\ pc' = "ran"
    /\ ncmds' = ncmds + 1
    /\ UNCHANGED crashed

\* "kp" proc_num
KillProcess ==
    /\ CanRun
    /\ \E proc_num \in Procs :
         \E r \in {kill_process(mem, proc_num)} :
             /\ mem' = r.mem
             /\ last' = [NoCmd EXCEPT !.op = "kp", !.proc_num = proc_num,
                            !.out = r.out, !.pt_page = r.pt_page]
    /\ pre' = mem
    /\ pc' = "ran"
    /\ ncmds' = ncmds + 1
    /\ UNCHANGED <<crashed, recreated>>

\* "sb" proc_num vaddr val.  A store outside mem is undefined: it either
\* kills the process or lands in memory that is not mem.
StoreByte ==
    /\ CanRun
    /\ \E proc_num \in Procs, vaddr \in VAddrs, val \in Vals :
         \E r \in {store_byte(mem, proc_num, vaddr, val)} :
         LET cmd == [NoCmd EXCEPT !.op = "sb", !.proc_num = proc_num,
                        !.arg = vaddr, !.val = val, !.oob = r.oob]
         IN  IF r.oob
             THEN \E dies \in BOOLEAN :
                    /\ crashed' = dies
                    /\ mem' = mem
                    /\ last' = IF dies THEN [cmd EXCEPT !.out = "Segmentation fault"]
                               ELSE [cmd EXCEPT !.out = r.out,
                                        !.phys_addr = r.phys_addr, !.rval = r.val]
             ELSE /\ crashed' = crashed
                  /\ mem' = r.mem
                  /\ last' = [cmd EXCEPT !.out = r.out,
                                 !.phys_addr = r.phys_addr, !.rval = r.val]
    /\ pre' = mem
    /\ pc' = "ran"
    /\ ncmds' = ncmds + 1
    /\ UNCHANGED recreated

\* "lb" proc_num vaddr.  A load outside mem is undefined: it either kills
\* the process or reads some byte.
LoadByte ==
    /\ CanRun
    /\ \E proc_num \in Procs, vaddr \in VAddrs :
         \E r \in {load_byte(mem, proc_num, vaddr)} :
         LET cmd == [NoCmd EXCEPT !.op = "lb", !.proc_num = proc_num,
                        !.arg = vaddr, !.oob = r.oob]
         IN  IF r.oob
             THEN \E dies \in BOOLEAN, byte \in Vals :
                    /\ crashed' = dies
                    /\ last' = IF dies THEN [cmd EXCEPT !.out = "Segmentation fault"]
                               ELSE [cmd EXCEPT !.out = r.out,
                                        !.phys_addr = r.phys_addr, !.rval = byte]
             ELSE /\ crashed' = crashed
                  /\ last' = [cmd EXCEPT !.out = r.out,
                                 !.phys_addr = r.phys_addr, !.rval = r.val]
    /\ mem' = mem
    /\ pre' = mem
    /\ pc' = "ran"
    /\ ncmds' = ncmds + 1
    /\ UNCHANGED recreated

\* "pfm"
PrintPageFreeMap ==
    /\ CanRun
    /\ last' = [NoCmd EXCEPT !.op = "pfm", !.out = "--- PAGE FREE MAP ---",
                   !.lines = print_page_free_map(mem)]
    /\ mem' = mem
    /\ pre' = mem
    /\ pc' = "ran"
    /\ ncmds' = ncmds + 1
    /\ UNCHANGED <<crashed, recreated>>

\* "ppt" proc_num
PrintPageTable ==
    /\ CanRun
    /\ \E proc_num \in Procs :
         last' = [NoCmd EXCEPT !.op = "ppt", !.proc_num = proc_num,
                     !.out = "--- PROCESS PAGE TABLE ---",
                     !.lines = print_page_table(mem, proc_num)]
    /\ mem' = mem
    /\ pre' = mem
    /\ pc' = "ran"
    /\ ncmds' = ncmds + 1
    /\ UNCHANGED <<crashed, recreated>>

\* main(): the command's function has returned; on to the next argument
NextCommand ==
    /\ pc = "ran"
    /\ ~crashed
    /\ pc' = "loop"
    /\ pre' = mem
    /\ last' = NoCmd
    /\ UNCHANGED <<mem, crashed, recreated, ncmds>>

\* main(): the loop over argv
Next ==
    \/ NextCommand
    \/ NewProcess
    \/ KillProcess
    \/ StoreByte
    \/ LoadByte
    \/ PrintPageFreeMap
    \/ PrintPageTable

Spec == Init /\ [][Next]_vars

\* ------------------------------------------------------------------------
\* Vocabulary of the claims
\* ------------------------------------------------------------------------
\* the Free/Used Map entry of a page is nonzero
Used(m, page) == page < PAGE_COUNT /\ Read(m, get_address(0, page)) # 0

\* the number of free pages
FreeCount(m) ==
    Cardinality({i \in 0..(PAGE_COUNT - 1) : Read(m, get_address(0, i)) = 0})

\* a process exists iff its Directory entry is nonzero
Exists(m, proc) == get_page_table(m, proc) # 0

\* entry v of the page table of proc
Entry(m, proc, v) == Read(m, get_address(get_page_table(m, proc), v))

\* the physical pages named by the nonzero entries of the page table of proc
Mapped(m, proc) == {Entry(m, proc, v) : v \in 0..(PAGE_COUNT - 1)} \ {0}

\* the bytes of m outside the Free/Used Map: Directory, page tables, data
OutsideMap(m) == [a \in {x \in DOMAIN m : x >= PAGE_COUNT} |-> m[a]]

Ran(op) == pc = "ran" /\ last.op = op

\* ------------------------------------------------------------------------
\* The claims
\* ------------------------------------------------------------------------

\* C1: in every reachable state, for every process whose Directory entry is
\* nonzero, its page-table page is marked used and every page named by a
\* nonzero entry of its page table (all PAGE_COUNT slots) is marked used.
C1_MapConsistent ==
    \A proc \in Procs :
        Exists(mem, proc) =>
            /\ Used(mem, get_page_table(mem, proc))
            /\ \A page \in Mapped(mem, proc) : Used(mem, page)

\* C2: in every reachable state the Free/Used Map entry of page 0 is nonzero,
\* and np never takes page 0 as a page-table page or as a data page.
C2_PageZeroReserved ==
    /\ Used(mem, 0)
    /\ Ran("np") =>
          /\ last.pt_page # 0
          /\ \A j \in DOMAIN last.data_pages : last.data_pages[j] # 0

\* C3: kp of a process whose Directory entry is 0 signals process-not-found
\* and leaves every byte of the RAM unchanged.
C3_KillAbsent ==
    (Ran("kp") /\ ~Exists(pre, last.proc_num)) =>
        /\ last.out # ""
        /\ mem = pre

\* C4: as long as every np was for a process that did not exist, no page is
\* named by page-table entries of two different existing processes, and no
\* page named by an existing process's page table is the page-table page of
\* an existing process.
C4_NoSharing ==
    ~recreated =>
        \A p \in Procs, q \in Procs :
            (Exists(mem, p) /\ Exists(mem, q)) =>
                /\ p # q => Mapped(mem, p) \cap Mapped(mem, q) = {}
                /\ get_page_table(mem, q) \notin Mapped(mem, p)

\* C5: after a successful np proc page_count run with at least page_count+1
\* free pages, the page table printed for proc has exactly page_count lines,
\* for the virtual pages 0..page_count-1, with pairwise distinct physical
\* pages, none of them 0.
C5_CreateSnapshot ==
    (Ran("np") /\ last.out = "" /\ FreeCount(pre) >= last.arg + 1) =>
        LET snap == print_page_table(mem, last.proc_num)
        IN  /\ Len(snap) = last.arg
            /\ \A k \in 1..Len(snap) :
                   /\ snap[k][1] = k - 1
                   /\ snap[k][2] # 0
                   /\ \A l \in 1..Len(snap) : l # k => snap[l][2] # snap[k][2]

\* C6: after a successful np for a process that did not exist, kp of that
\* process gives back the free map printed before the np.
C6_CreateKillRoundTrip ==
    (Ran("np") /\ last.out = "" /\ ~Exists(pre, last.proc_num)) =>
        print_page_free_map(kill_process(mem, last.proc_num).mem)
            = print_page_free_map(pre)

\* C7: after sb proc vaddr v for an existing process and a mapped virtual
\* page, lb proc vaddr succeeds and reports v at the physical address that
\* the sb reported.
C7_StoreLoadRoundTrip ==
    (/\ Ran("sb")
     /\ Exists(pre, last.proc_num)
     /\ Entry(pre, last.proc_num, ShiftRight(last.arg, PAGE_SHIFT)) # 0) =>
        /\ last.out = "Store"
        /\ LET r == load_byte(mem, last.proc_num, last.arg)
           IN  /\ r.out = "Load"
               /\ ~r.oob
               /\ r.phys_addr = last.phys_addr
               /\ r.val = last.val

\* C8: np proc page_count run with N free pages and page_count > N - 1
\* prints OOM, for the page table when N = 0 and for a data page otherwise,
\* and leaves the Directory and every page table as they were (every byte
\* outside the Free/Used Map).
C8_OutOfMemory ==
    (Ran("np") /\ last.arg > FreeCount(pre) - 1) =>
        /\ last.out = IF FreeCount(pre) = 0 THEN "OOM: page table"
                      ELSE "OOM: data page"
        /\ OutsideMap(mem) = OutsideMap(pre)

\* a data-page OOM with free pages left and a process in existence
C8_Witness ==
    /\ Ran("np")
    /\ last.arg > FreeCount(pre) - 1
    /\ FreeCount(pre) > 0
    /\ \E proc \in Procs : Exists(pre, proc) /\ Mapped(pre, proc) # {}

\* the free pages of m in ascending order
RECURSIVE Ascending(_)
Ascending(S) ==
    IF S = {} THEN << >>
    ELSE LET lo == CHOOSE x \in S : \A y \in S : x <= y
         IN  <<lo>> \o Ascending(S \ {lo})

FreeList(m) ==
    Ascending({i \in 0..(PAGE_COUNT - 1) : Read(m, get_address(0, i)) = 0})

\* C9: a successful np proc n takes the lowest free page as page-table page
\* and the next n lowest free pages, ascending, as data pages, writes the
\* i-th into page-table entry i and the page-table page into the Directory
\* entry of proc; from the initial RAM, np 2 3 gives page-table page 1 and
\* the page table 0 -> 2, 1 -> 3, 2 -> 4.
C9_FirstFit ==
    (Ran("np") /\ last.out = "") =>
        LET free == FreeList(pre)
            n == last.arg
        IN  /\ Len(free) >= n + 1
            /\ last.pt_page = free[1]
            /\ get_page_table(mem, last.proc_num) = free[1]
            /\ \A i \in 0..(n - 1) :
                   /\ last.data_pages[i + 1] = free[i + 2]
                   /\ Read(mem, get_address(free[1], i)) = free[i + 2]
            /\ (pre = initialize_mem /\ last.proc_num = 2 /\ n = 3) =>
                   /\ last.pt_page = 1
                   /\ print_page_table(mem, 2) = << <<0, 2>>, <<1, 3>>, <<2, 4>> >>

\* a successful np of three pages when the lowest pages are taken already
C9_Witness ==
    /\ Ran("np")
    /\ last.out = ""
    /\ last.arg = 3
    /\ Used(pre, 0)
    /\ Used(pre, 1)
    /\ last.pt_page > 1

\* C10: sb and lb on a virtual page (< PAGE_COUNT) whose page-table entry is
\* 0 print the invalid-address error, report no address and no value, and
\* leave the RAM unchanged.
C10_TranslationFault ==
    (/\ Ran("sb") \/ Ran("lb")
     /\ ShiftRight(last.arg, PAGE_SHIFT) < PAGE_COUNT
     /\ Entry(pre, last.proc_num, ShiftRight(last.arg, PAGE_SHIFT)) = 0) =>
        /\ last.out = "Error: Invalid virtual address"
        /\ last.phys_addr = -1
        /\ last.rval = -1
        /\ mem = pre

\* a store to an unmapped virtual page of an existing process
C10_Witness ==
    /\ Ran("sb")
    /\ last.val # 0
    /\ Exists(pre, last.proc_num)
    /\ Entry(pre, last.proc_num, ShiftRight(last.arg, PAGE_SHIFT)) = 0

\* C11: immediately after initialize_mem() the Free/Used Map shows page 0
\* used and pages 1..PAGE_COUNT-1 free, every Directory entry is 0, and every
\* other byte of the RAM is 0.
C11_InitialStore ==
    ncmds = 0 =>
        /\ Used(mem, 0)
        /\ \A i \in 1..(PAGE_COUNT - 1) : ~Used(mem, i)
        /\ \A proc \in Procs : ~Exists(mem, proc)
        /\ \A a \in 1..(MEM_SIZE - 1) : Read(mem, a) = 0

\* main() has called initialize_mem() and has run no command yet
C11_Witness ==
    /\ ncmds = 0
    /\ pc = "loop"
    /\ mem = initialize_mem

\* the pages that np took in its last run: page table and data pages
Taken(cmd) ==
    {cmd.pt_page} \cup
    {cmd.data_pages[j] : j \in {x \in DOMAIN cmd.data_pages : cmd.data_pages[x] # -1}}

\* C12: an np that got its page-table page and then printed OOM for a data
\* page stopped allocating at the first failure; the page-table page and the
\* data pages it took stay marked used, no page is free, no other map entry
\* changed, and every byte outside the Free/Used Map (Directory, page tables)
\* is as before.
C12_DataPageLeak ==
    (Ran("np") /\ last.out = "OOM: data page") =>
        /\ \E j \in DOMAIN last.data_pages : last.data_pages[j] = -1
        /\ \A j, k \in DOMAIN last.data_pages :
               (last.data_pages[j] = -1 /\ j < k) => last.data_pages[k] = -1
        /\ \A page \in Taken(last) : ~Used(pre, page) /\ Used(mem, page)
        /\ FreeCount(mem) = 0
        /\ \A i \in 0..(PAGE_COUNT - 1) :
               i \notin Taken(last) =>
                   Read(mem, get_address(0, i)) = Read(pre, get_address(0, i))
        /\ OutsideMap(mem) = OutsideMap(pre)

\* a data-page OOM after at least one data page was taken, with a process
\* in existence
C12_Witness ==
    /\ Ran("np")
    /\ last.out = "OOM: data page"
    /\ Cardinality(Taken(last)) >= 2
    /\ \E proc \in Procs : Exists(pre, proc)

\* C13: np run when no page is free prints OOM for the page table and
\* leaves every byte of the RAM as it was, whatever the page_count.
C13_PageTableOOM ==
    (Ran("np") /\ FreeCount(pre) = 0) =>
        /\ last.out = "OOM: page table"
        /\ mem = pre

\* an np of no pages in a RAM with no free page
C13_Witness ==
    /\ Ran("np")
    /\ FreeCount(pre) = 0
    /\ last.arg = 0

\* C14: kp of an existing process p zeroes the Directory entry of p and
\* frees p's page-table page and the pages its nonzero entries name; for
\* every other existing process q the Directory entry, the page table, and
\* the used status of q's page-table page and of the pages q's page table
\* names are as before.
C14_KillIsolated ==
    \A p \in Procs :
        Exists(mem, p) =>
            LET after == kill_process(mem, p).mem
            IN  /\ ~Exists(after, p)
                /\ ~Used(after, get_page_table(mem, p))
                /\ \A page \in Mapped(mem, p) : ~Used(after, page)
                /\ \A q \in Procs \ {p} :
                       Exists(mem, q) =>
                           /\ get_page_table(after, q) = get_page_table(mem, q)
                           /\ \A v \in 0..(PAGE_COUNT - 1) :
                                  Entry(after, q, v) = Entry(mem, q, v)
                           /\ Used(after, get_page_table(mem, q))
                                  = Used(mem, get_page_table(mem, q))
                           /\ \A page \in Mapped(mem, q) :
                                  Used(after, page) = Used(mem, page)

\* C15: an sb that printed Store wrote its value at the address made of
\* the page-table entry of the virtual page and vaddr & (PAGE_SIZE-1), an
\* address inside the RAM that lies neither in page 0 nor in the page-table
\* page of an existing process, and changed no other byte; so the free map,
\* the Directory and every page table are as before.
C15_StoreOneByte ==
    (Ran("sb") /\ last.out = "Store") =>
        LET page == Entry(pre, last.proc_num, ShiftRight(last.arg, PAGE_SHIFT))
            addr == get_address(page, BitAnd(last.arg, PAGE_SIZE - 1))
        IN  /\ last.phys_addr = addr
            /\ InBounds(addr)
            /\ Read(mem, addr) = last.val
            /\ \A a \in (DOMAIN mem \cup DOMAIN pre) \ {addr} :
                   Read(mem, a) = Read(pre, a)
            /\ page # 0
            /\ \A q \in Procs : Exists(pre, q) => page # get_page_table(pre, q)
            /\ print_page_free_map(mem) = print_page_free_map(pre)
            /\ \A q \in Procs :
                   /\ get_page_table(mem, q) = get_page_table(pre, q)
                   /\ print_page_table(mem, q) = print_page_table(pre, q)

\* C16: sb and lb for a process whose Directory entry is 0 print the
\* invalid-address error, and the RAM is unchanged.
C16_AbsentProcessFaults ==
    ((Ran("sb") \/ Ran("lb")) /\ ~Exists(pre, last.proc_num)) =>
        /\ last.out = "Error: Invalid virtual address"
        /\ mem = pre

\* C17: every Directory entry and every page-table entry of an existing
\* process is below PAGE_COUNT, no sb or lb computes an address outside the
\* RAM, and every page-table entry that kp read as a page to free was below
\* PAGE_COUNT, so that its map write stayed inside the Free/Used Map.
C17_IndicesInRange ==
    /\ \A proc \in Procs :
           Exists(mem, proc) =>
               /\ get_page_table(mem, proc) < PAGE_COUNT
               /\ \A v \in 0..(PAGE_COUNT - 1) : Entry(mem, proc, v) < PAGE_COUNT
    /\ (Ran("sb") \/ Ran("lb")) => ~last.oob
    /\ Ran("kp") =>
           \A v \in 0..(PAGE_COUNT - 1) : Entry(pre, last.proc_num, v) < PAGE_COUNT

====
